---- MODULE Spec2Model ----
(***************************************************************************)
(* Model of the Civ6 DLC installer (src/src/main.rs): the pipeline         *)
(* civ6_install -> download_dlc -> extract_dlc of main_inner, the local    *)
(* archive file ZIP_FILE, the destination tree under the install           *)
(* directory, and re-runs of the program over the same file system.        *)
(***************************************************************************)
EXTENDS Integers, Sequences, FiniteSets, TLC

\* ------------------------------------------------------------- bounds
\* Largest number of entries of the hosted archive.
MaxEntries == 2
\* Length of the data of a non-empty file entry.
MaxLen == 1
\* Length of the content of a file that is on disk before the first run.
OldLen == 2
\* Length in bytes of the asset the server hosts.
AssetLen == 2
\* Largest content length the server declares.
MaxSize == 3
\* Largest chunk the byte stream yields.
MaxChunk == 2

\* ---------------------------------------------------------- constants
\* static DELETE_AFTER: bool = true
DELETE_AFTER == TRUE
\* let mut buf = [0u8; 1024]
BufLen == 1024

\* ------------------------------------------------------------- values
Min(a, b) == IF a < b THEN a ELSE b

RECURSIVE Rep(_, _)
Rep(b, n) == IF n = 0 THEN <<>> ELSE Append(Rep(b, n - 1), b)

\* Option<T> as a sequence of length at most one.
None == <<>>
Some(x) == <<x>>

\* A node of the file system: absent, a directory, or a regular file.
Absent == [kind |-> "absent", content |-> <<>>]
Dir == [kind |-> "dir", content |-> <<>>]
RegularFile(c) == [kind |-> "file", content |-> c]

\* A std::fs::File: File::open gives a read-only handle, File::create a
\* write-only one; both start at position 0.
NoFile == [open |-> FALSE, mode |-> "r", pos |-> 0]
Handle(m, p) == [open |-> TRUE, mode |-> m, pos |-> p]

\* The bytes of the asset behind DLC_URL, a valid 7z archive for PASSWORD.
Asset == [i \in 1..AssetLen |-> 55 + i]

\* ------------------------------------------------------------- paths
\* A file name is a stem and an optional extension; a path (relative to
\* the install directory) is a sequence of names.
Name(s, e) == [stem |-> s, ext |-> e]
BinDir == <<Name("bin", None)>>
LibDll == <<Name("bin", None), Name("lib", Some("dll"))>>
CfgTxt == <<Name("cfg", Some("txt"))>>
Paths == {BinDir, LibDll, CfgTxt}

\* Path::parent and Path::extension.
parent(p) == SubSeq(p, 1, Len(p) - 1)
extension(p) == IF p = <<>> THEN None ELSE p[Len(p)].ext

\* The install directory itself (the empty relative path) is a directory.
node(t, p) == IF p = <<>> THEN Dir ELSE t[p]

\* Path::exists
exists(t, p) == node(t, p).kind # "absent"

\* A tree keeps files and directories under directories only.
WellFormed(t) == \A p \in Paths : exists(t, p) => node(t, parent(p)).kind = "dir"

\* ------------------------------------------------------------- archive
\* An entry as the 7z reader hands it to the closure of for_each_entries.
Entry(n, d, bytes) == [name |-> n, is_directory |-> d, data |-> bytes]
has_stream(e) == Len(e.data) > 0
size(e) == Len(e.data)

NewData == {<<>>, Rep(1, MaxLen)}
OldData == Rep(0, OldLen)
Entries == {Entry(p, TRUE, <<>>) : p \in Paths} \cup {Entry(p, FALSE, d) : p \in Paths, d \in NewData}

RECURSIVE SeqsUpTo(_, _)
SeqsUpTo(S, n) ==
    IF n = 0 THEN {<<>>}
    ELSE LET shorter == SeqsUpTo(S, n - 1)
         IN shorter \cup {Append(q, x) : q \in {r \in shorter : Len(r) = n - 1}, x \in S}

Archives == SeqsUpTo(Entries, MaxEntries)

\* The trees the install directory can hold before the first run.
InitNodes == {Absent, Dir, RegularFile(OldData)}
InitTrees == {t \in [Paths -> InitNodes] : WellFormed(t)}

\* What ZIP_FILE can be before the first run: nothing, or a file that is
\* not the asset.
InitZips == {Absent, RegularFile(OldData)}

\* ------------------------------------------------------------- state
VARIABLES
    pc,                \* position of main_inner
    error,             \* the Error main_inner returned, "none" while it runs
    zip,               \* the node at ZIP_FILE
    tree,              \* the nodes under the install directory
    archive,           \* the entries of the hosted archive, in callback order
    file,              \* the File handle download_dlc hands to extract_dlc
    requested,         \* a GET was sent in this run
    total_size,        \* download_file: res.content_length()
    downloaded,        \* download_file: downloaded
    sent,              \* bytes of the body the stream has yielded
    item,              \* download_file: what stream.next() yielded last
    archive_size,      \* extract_7z: archive_size
    uncompressed_size, \* extract_7z: uncompressed_size
    idx,               \* for_each_entries: index of the next entry
    lastTree           \* the tree as the last completed entry iteration left it

vars == <<pc, error, zip, tree, archive, file, requested, total_size, downloaded,
          sent, item, archive_size, uncompressed_size, idx, lastTree>>

fsVars == <<zip, tree>>
downloadVars == <<requested, total_size, downloaded, sent, item>>
extractVars == <<archive_size, uncompressed_size, idx>>

Running == error = "none" /\ pc # "done"

Init ==
    /\ pc = "civ6_install"
    /\ error = "none"
    /\ zip \in InitZips
    /\ tree \in InitTrees
    /\ archive \in Archives
    /\ file = NoFile
    /\ requested = FALSE
    /\ total_size = None
    /\ downloaded = 0
    /\ sent = 0
    /\ item = "none"
    /\ archive_size = 0
    /\ uncompressed_size = 0
    /\ idx = 0
    /\ lastTree = None

\* ------------------------------------------------------------- helpers
\* Write::write_all on a handle at position pos of a file holding content.
write_all(content, pos, bytes) ==
    SubSeq(content, 1, pos) \o bytes \o SubSeq(content, pos + Len(bytes) + 1, Len(content))

\* File::create on a path now holding the node old: the file is truncated
\* and the handle starts at 0.
File_create_keep(old) == [content |-> old.content, pos |-> 0]
File_create_append(old) == [content |-> old.content, pos |-> Len(old.content)]
File_create(old) == [content |-> <<>>, pos |-> 0]

\* Fail(e): main_inner returns Err(e); the locals of the callee are dropped.
Fail(e) == error' = e /\ pc' = pc /\ file' = NoFile

\* The locals of download_file and of extract_7z go when the function returns.
DropDownload == total_size' = None /\ downloaded' = 0 /\ sent' = 0
DropExtract == archive_size' = 0 /\ uncompressed_size' = 0 /\ idx' = 0

\* ------------------------------------------------------------ locator
LocateErrors == {"SteamNotFound", "Civ6NotFound", "Civ6NoParent"}

civ6_install ==
    /\ Running /\ pc = "civ6_install"
    /\ \/ \E e \in LocateErrors : Fail(e)
       \/ pc' = "download_dlc" /\ error' = error /\ file' = file
    /\ UNCHANGED <<fsVars, archive, downloadVars, extractVars, lastTree>>

\* ---------------------------------------------------------- downloader
ContentLengths == {None} \cup {Some(n) : n \in 0..MaxSize}

\* download_file up to the first stream.next(): the request, the content
\* length, then File::create(path). The template of the progress bar is a
\* fixed valid string, so Error::Template does not arise.
download_file_create_first ==
    \E sendOk \in BOOLEAN, cl \in ContentLengths, createOk \in BOOLEAN :
        /\ requested' = TRUE
        /\ IF ~sendOk
           THEN Fail("DownloadDlc") /\ UNCHANGED <<zip, total_size, downloaded, sent, item>>
           ELSE IF zip.kind = "dir" \/ ~createOk
           THEN Fail("CreateFile") /\ UNCHANGED <<zip, total_size, downloaded, sent, item>>
           ELSE IF cl = None
           THEN /\ Fail("ContentLength")
                /\ zip' = RegularFile(File_create(zip).content)
                /\ UNCHANGED <<total_size, downloaded, sent, item>>
           ELSE /\ zip' = RegularFile(File_create(zip).content)
                /\ file' = Handle("w", File_create(zip).pos)
                /\ total_size' = cl
                /\ downloaded' = 0
                /\ sent' = 0
                /\ item' = "none"
                /\ pc' = "stream"
                /\ error' = error

download_file ==
    \E sendOk \in BOOLEAN, cl \in ContentLengths, createOk \in BOOLEAN :
        /\ requested' = TRUE
        /\ IF ~sendOk
           THEN Fail("DownloadDlc") /\ UNCHANGED <<zip, total_size, downloaded, sent, item>>
           ELSE IF cl = None
           THEN Fail("ContentLength") /\ UNCHANGED <<zip, total_size, downloaded, sent, item>>
           ELSE IF zip.kind = "dir" \/ ~createOk
           THEN Fail("CreateFile") /\ UNCHANGED <<zip, total_size, downloaded, sent, item>>
           ELSE /\ zip' = RegularFile(File_create(zip).content)
                /\ file' = Handle("w", File_create(zip).pos)
                /\ total_size' = cl
                /\ downloaded' = 0
                /\ sent' = 0
                /\ item' = "none"
                /\ pc' = "stream"
                /\ error' = error

\* download_dlc: the presence check on ZIP_FILE, then File::open or
\* download_file.
download_dlc_always ==
    /\ Running /\ pc = "download_dlc"
    /\ download_file
    /\ UNCHANGED <<tree, archive, extractVars, lastTree>>

download_dlc ==
    /\ Running /\ pc = "download_dlc"
    /\ IF zip.kind # "absent"
       THEN /\ \/ file' = Handle("r", 0) /\ pc' = "extract_7z" /\ error' = error
               \/ Fail("Io")
            /\ UNCHANGED <<zip, downloadVars>>
       ELSE download_file
    /\ UNCHANGED <<tree, archive, extractVars, lastTree>>

\* The error kind of a failed item of the byte stream: `item?` converts the
\* reqwest::Error through From, which only DownloadDlc derives.
StreamErrorKind_chunk == "DownloadChunk"
StreamErrorKind == "DownloadDlc"

\* One turn of `while let Some(item) = stream.next().await`, and the return
\* of download_file when the stream ends.
download_file_next ==
    /\ Running /\ pc = "stream"
    /\ \/ \* Some(Ok(chunk)), written whole
          \E n \in 1..MaxChunk :
            /\ sent + n <= Len(Asset)
            /\ LET chunk == SubSeq(Asset, sent + 1, sent + n)
               IN /\ zip' = RegularFile(write_all(zip.content, file.pos, chunk))
                  /\ file' = [file EXCEPT !.pos = @ + n]
                  /\ downloaded' = Min(downloaded + n, total_size[1])
                  /\ sent' = sent + n
            /\ item' = "chunk"
            /\ UNCHANGED <<pc, error, total_size>>
       \/ \* Some(Ok(chunk)), write_all fails after k bytes
          \E n \in 1..MaxChunk, k \in 0..(MaxChunk - 1) :
            /\ sent + n <= Len(Asset) /\ k < n
            /\ zip' = RegularFile(write_all(zip.content, file.pos, SubSeq(Asset, sent + 1, sent + k)))
            /\ item' = "chunk"
            /\ Fail("DownloadChunk")
            /\ DropDownload
       \/ \* Some(Err(e))
          /\ item' = "err"
          /\ Fail(StreamErrorKind)
          /\ DropDownload
          /\ UNCHANGED zip
       \/ \* None: the body has ended
          /\ sent = Len(Asset)
          /\ item' = "end"
          /\ pc' = "extract_7z"
          /\ UNCHANGED <<error, zip, file, total_size, downloaded, sent>>
    /\ UNCHANGED <<tree, archive, requested, extractVars, lastTree>>

\* ----------------------------------------------------------- extractor
RECURSIVE SumSizes(_)
SumSizes(es) ==
    IF es = <<>> THEN 0
    ELSE (IF has_stream(Head(es)) THEN size(Head(es)) ELSE 0) + SumSizes(Tail(es))

\* extract_7z up to for_each_entries: the length of the file, the reader
\* over the handle, the size of the archive. The reader reads the handle,
\* which a write-only handle refuses, and decodes only the whole asset.
extract_7z ==
    /\ Running /\ pc = "extract_7z"
    /\ \/ Fail("LengthDlc") /\ DropExtract
       \/ IF file.mode = "r" /\ zip.content = Asset
          THEN /\ archive_size' = SumSizes(archive)
               /\ uncompressed_size' = 0
               /\ idx' = 1
               /\ pc' = "entries"
               /\ UNCHANGED <<error, file>>
          ELSE Fail("ExtractDlc") /\ DropExtract
    /\ DropDownload
    /\ item' = "none"
    /\ UNCHANGED <<fsVars, archive, requested, lastTree>>

\* path.exists() && path.extension().map(|x| x != "dll").unwrap_or(true)
ShouldSkip_inverted(t, p) ==
    exists(t, p) /\ (IF extension(p) = None THEN TRUE ELSE extension(p)[1] = "dll")
ShouldSkip(t, p) ==
    exists(t, p) /\ (IF extension(p) = None THEN TRUE ELSE extension(p)[1] # "dll")

\* entry.is_directory(), the test of the directory branch
is_directory_negated(e) == ~e.is_directory
is_directory(e) == e.is_directory

\* std::fs::create_dir_all: every component of p becomes a directory; it
\* fails, creating nothing, when a component is a regular file.
Prefixes(p) == {SubSeq(p, 1, k) : k \in 1..Len(p)}
create_dir_all_ok(t, p) == \A q \in Prefixes(p) : node(t, q).kind # "file"
create_dir_all(t, p) == [q \in Paths |-> IF q \in Prefixes(p) THEN Dir ELSE t[q]]

\* The read/write loop of the closure on a created file: blocks of at most
\* BufLen bytes until read returns 0. Gives the content and the counter.
RECURSIVE WriteLoop(_, _, _, _)
WriteLoop(content, pos, data, usz) ==
    IF data = <<>> THEN [content |-> content, uncompressed_size |-> usz]
    ELSE LET read_size == Min(BufLen, Len(data))
         IN WriteLoop(write_all(content, pos, SubSeq(data, 1, read_size)),
                      pos + read_size,
                      SubSeq(data, read_size + 1, Len(data)),
                      usz + read_size)

\* The closure of for_each_entries on the entry at idx. A failure of the
\* closure leaves for_each_entries as sevenz_rust::Error, which `?` turns
\* into ExtractDlc. dest.join(name) has a parent for every name, so
\* NoParent7z does not arise. A failed write leaves k bytes of the entry.
for_each_entries ==
    /\ Running /\ pc = "entries" /\ idx <= Len(archive)
    /\ LET entry == archive[idx]
           path == entry.name
       IN IF ShouldSkip(tree, path)
          THEN /\ idx' = idx + 1
               /\ UNCHANGED <<pc, error, file, tree, archive_size, uncompressed_size>>
          ELSE IF is_directory(entry)
          THEN IF create_dir_all_ok(tree, path)
               THEN /\ tree' = create_dir_all(tree, path)
                    /\ idx' = idx + 1
                    /\ UNCHANGED <<pc, error, file, archive_size, uncompressed_size>>
               ELSE Fail("ExtractDlc") /\ DropExtract /\ UNCHANGED tree
          ELSE IF ~create_dir_all_ok(tree, parent(path))
          THEN Fail("ExtractDlc") /\ DropExtract /\ UNCHANGED tree
          ELSE LET made == create_dir_all(tree, parent(path))
                   created == File_create(made[path])
               IN IF made[path].kind = "dir"
                  THEN Fail("ExtractDlc") /\ DropExtract /\ tree' = made
                  ELSE \/ LET out == WriteLoop(created.content, created.pos, entry.data,
                                               uncompressed_size)
                          IN /\ tree' = [made EXCEPT ![path] = RegularFile(out.content)]
                             /\ uncompressed_size' = out.uncompressed_size
                             /\ idx' = idx + 1
                             /\ UNCHANGED <<pc, error, file, archive_size>>
                       \/ \E k \in 0..(MaxLen - 1) :
                             /\ k < Len(entry.data)
                             /\ tree' = [made EXCEPT ![path] = RegularFile(
                                    write_all(created.content, created.pos,
                                              SubSeq(entry.data, 1, k)))]
                             /\ Fail("ExtractDlc") /\ DropExtract
    /\ UNCHANGED <<zip, archive, downloadVars, lastTree>>

\* extract_7z after for_each_entries returned Ok: the clean-up.
extract_7z_keep_archive ==
    /\ Running /\ pc = "entries" /\ idx > Len(archive)
    /\ lastTree' = Some(tree)
    /\ pc' = "done" /\ file' = NoFile /\ UNCHANGED <<zip, error>>
    /\ DropExtract
    /\ UNCHANGED <<tree, archive, downloadVars>>

extract_7z_finish ==
    /\ Running /\ pc = "entries" /\ idx > Len(archive)
    /\ lastTree' = Some(tree)
    /\ IF DELETE_AFTER
       THEN \/ zip' = Absent /\ pc' = "done" /\ file' = NoFile /\ error' = error
            \/ Fail("Io") /\ UNCHANGED zip
       ELSE pc' = "done" /\ file' = NoFile /\ UNCHANGED <<zip, error>>
    /\ DropExtract
    /\ UNCHANGED <<tree, archive, downloadVars>>

\* ------------------------------------------------------------ pipeline
\* The program is started again after it ended; the file system stays.
main ==
    /\ ~Running
    /\ pc' = "civ6_install"
    /\ error' = "none"
    /\ file' = NoFile
    /\ requested' = FALSE
    /\ item' = "none"
    /\ DropDownload
    /\ DropExtract
    /\ UNCHANGED <<fsVars, archive, lastTree>>

Next ==
    \/ main
    \/ civ6_install
    \/ download_dlc
    \/ download_file_next
    \/ extract_7z
    \/ for_each_entries
    \/ extract_7z_finish

Spec == Init /\ [][Next]_vars

\* ------------------------------------------------------------- claims
AtEntry == Running /\ pc = "entries" /\ idx <= Len(archive)
IterationComplete == Running /\ pc = "entries" /\ idx > Len(archive)
IsDll(p) == extension(p) = Some("dll")

\* C1: when ZIP_FILE exists as download_dlc is called, the step sends no
\* request, leaves the file as it is, and what it returns on success is a
\* read handle on that file, whatever the file holds.
C1_ExistingArchiveUntouched ==
    [][(Running /\ pc = "download_dlc" /\ zip.kind = "file")
         => /\ zip' = zip
            /\ requested' = FALSE
            /\ error' = "none" => (pc' = "extract_7z" /\ file' = Handle("r", 0))]_vars

\* A partial archive left by a failed download is handed on without a request.
C1_Witness ==
    /\ Running /\ pc = "extract_7z" /\ ~requested
    /\ file = Handle("r", 0)
    /\ zip.kind = "file" /\ zip.content # Asset /\ Len(zip.content) > 0

\* C2: an entry whose destination exists and whose extension is not dll is
\* skipped: the tree and the progress counter stay as they are and the
\* iteration goes on to the next entry.
C2_SkipIsNoOp ==
    [][(AtEntry /\ exists(tree, archive[idx].name) /\ ~IsDll(archive[idx].name))
         => /\ tree' = tree
            /\ uncompressed_size' = uncompressed_size
            /\ idx' = idx + 1
            /\ error' = "none"]_vars

\* A file entry for cfg.txt was passed and cfg.txt still holds its old bytes.
C2_Witness ==
    /\ Running /\ pc = "entries" /\ idx = 2
    /\ archive[1] = Entry(CfgTxt, FALSE, Rep(1, MaxLen))
    /\ tree[CfgTxt] = RegularFile(OldData)
    /\ uncompressed_size = 0

\* C3: a file entry whose destination exists and has the extension dll,
\* when its closure succeeds, leaves exactly the entry's bytes at the
\* destination.
C3_DllOverwritten ==
    [][(AtEntry /\ ~archive[idx].is_directory /\ exists(tree, archive[idx].name)
          /\ IsDll(archive[idx].name) /\ error' = "none")
         => tree'[archive[idx].name] = RegularFile(archive[idx].data)]_vars

\* In a run after a completed one, lib.dll held the bytes of the last entry
\* and now holds those of the first, which differ.
C3_Witness ==
    /\ Running /\ pc = "entries" /\ idx = 2
    /\ archive = <<Entry(LibDll, FALSE, <<>>), Entry(LibDll, FALSE, Rep(1, MaxLen))>>
    /\ lastTree # None
    /\ lastTree[1][LibDll] = RegularFile(Rep(1, MaxLen))
    /\ tree[LibDll] = RegularFile(<<>>)

\* C4: once an entry iteration has completed, every later completed
\* iteration of the same archive ends in the same tree; in between every
\* destination exists, so every entry without the extension dll is skipped,
\* and only dll paths are ever written.
C4_Idempotent ==
    lastTree # None
      => /\ \A i \in 1..Len(archive) : exists(tree, archive[i].name)
         /\ \A p \in Paths : ~IsDll(p) => tree[p] = lastTree[1][p]
         /\ IterationComplete => tree = lastTree[1]

\* A second iteration over a dll entry with data and another entry is complete.
C4_Witness ==
    /\ IterationComplete
    /\ lastTree = Some(tree)
    /\ \E i, j \in 1..Len(archive) :
          /\ IsDll(archive[i].name) /\ ~archive[i].is_directory /\ archive[i].data # <<>>
          /\ ~IsDll(archive[j].name) /\ ~archive[j].is_directory
          /\ tree[archive[j].name] = RegularFile(OldData)

\* C5: when download_file returns its handle, downloaded equals the declared
\* total size and so does the length of the file.
C5_DownloadComplete ==
    (Running /\ pc = "extract_7z" /\ file.mode = "w")
      => (downloaded = total_size[1] /\ Len(zip.content) = total_size[1])

\* C6: the closure, when it succeeds on a directory entry, leaves a
\* directory at the destination whatever was there, and does not advance
\* the progress counter.
C6_DirectoryAlways ==
    [][(AtEntry /\ archive[idx].is_directory /\ error' = "none")
         => /\ tree'[archive[idx].name].kind = "dir"
            /\ uncompressed_size' = uncompressed_size]_vars

\* C6 as amended: a destination that is absent or a directory when the
\* entry is reached is a directory afterwards and stays one; a destination
\* that is a regular file is left as it is (the entry is skipped, which
\* only happens without the extension dll); the counter is never advanced.
C6_DirectoryUnlessFile ==
    [][/\ \A p \in Paths : tree[p].kind = "dir" => tree'[p].kind = "dir"
       /\ (AtEntry /\ archive[idx].is_directory /\ error' = "none")
            => /\ uncompressed_size' = uncompressed_size
               /\ IF tree[archive[idx].name].kind = "file"
                  THEN ~IsDll(archive[idx].name) /\ tree' = tree
                  ELSE tree'[archive[idx].name].kind = "dir"]_vars

\* Two directory entries were passed: bin is still the regular file it was
\* and cfg.txt is a directory.
C6_Witness ==
    /\ IterationComplete
    /\ archive = <<Entry(BinDir, TRUE, <<>>), Entry(CfgTxt, TRUE, <<>>)>>
    /\ tree[BinDir] = RegularFile(OldData)
    /\ tree[CfgTxt] = Dir
    /\ uncompressed_size = 0

\* C7: a response without a content length fails with ContentLength and
\* no file has been created.
C7_ContentLengthBeforeCreate ==
    error = "ContentLength" => (zip = Absent /\ file = NoFile /\ requested)

C7_Witness == error = "ContentLength" /\ pc = "download_dlc" /\ zip = Absent

\* C8: the archive file is there for as long as extract_7z runs and when it
\* fails (opening the archive, in an entry, or removing the file), and it
\* is gone when the run is done.
C8_DeleteOnlyAfterSuccess ==
    /\ pc \in {"extract_7z", "entries"} => zip.kind = "file"
    /\ pc = "done" => zip = Absent

\* An entry failed and the whole archive is still on disk.
C8_Witness ==
    pc = "entries" /\ error = "ExtractDlc" /\ zip = RegularFile(Asset)

\* C9: an error item of the stream fails the download with DownloadChunk
\* and leaves the file as it is.
C9_StreamErrorIsDownloadChunk ==
    [][(Running /\ pc = "stream" /\ item' = "err")
         => (error' = "DownloadChunk" /\ zip' = zip)]_vars

\* C9 as amended: an error item of the stream fails the download with
\* DownloadDlc and leaves the file as it is; DownloadChunk is the failure
\* of writing a chunk, which leaves the file on disk too.
C9_StreamErrorIsDownloadDlc ==
    [][(Running /\ pc = "stream")
         => /\ item' = "err" => (error' = "DownloadDlc" /\ zip' = zip)
            /\ error' = "DownloadChunk" => (item' = "chunk" /\ zip'.kind = "file")]_vars

\* The stream failed after one byte of the asset was written.
C9_Witness ==
    /\ item = "err" /\ error = "DownloadDlc" /\ pc = "stream"
    /\ zip = RegularFile(SubSeq(Asset, 1, 1))

\* C10: a run that fetched the whole asset itself does not fail at opening
\* the archive.
C10_FreshDownloadExtracts ==
    ~(pc = "extract_7z" /\ error = "ExtractDlc" /\ requested /\ zip = RegularFile(Asset))

====
